---- MODULE Spec2Model ----
(***************************************************************************)
(* Ocean-Scraper crawl orchestration: the crawl loop of                    *)
(* CrawlingService.crawlMultiPage with its ProgressTracker, the persisted  *)
(* job status written by the JobManager worker, the crawl engine and the   *)
(* cancel paths, and the BrowserManager instance pool.                     *)
(*                                                                         *)
(* Spec        a crawl job of the queue: pending record, worker, crawl,    *)
(*             progress events and the cancel paths                        *)
(* SpecEngine  crawlMultiPage started by createMCPCrawlJob (no job record, *)
(*             no worker), with the cancel_crawl tool                      *)
(* SpecPool    concurrent BrowserManager.getBrowser / releaseBrowser calls *)
(***************************************************************************)
EXTENDS Integers, Sequences, FiniteSets, TLC

(***************************************************************************)
(* Bounds of the model.                                                    *)
(***************************************************************************)
\* distinct pages of the crawled site; every page has two spellings
NumPages == 2
\* raw links one scraped page may carry
MaxRawLinks == 2
\* largest maxPages / maxDepth a submission asks for
MaxPagesOpt == 2
MaxDepthOpt == 1
\* concurrent callers of BrowserManager.getBrowser
NumAcquirers == 2
\* largest configured pool size
MaxPoolSize == 2
\* browser launches in one run of the pool
MaxLaunches == 3
\* crawl jobs that wait in crawl-queue at once
MaxWaiting == 5
\* crawls started through createMCPCrawlJob that run at once
MaxMcpCrawls == 4
\* links given to normalizeUrl: segments of the pathname, pairs of the query,
\* distinct parameter names and values
MaxSegments == 3
MaxParams == 2
\* a tracker called on its own: pages it is told about, minutes that pass,
\* listeners registered
MaxTracked == 3
MaxElapsed == 1
MaxListeners == 1
MaxManyLinks == 22
\* hosts that pages may link to (host 0 is the host of the start URL)
NumHosts == 2
NumParamNames == 2
NumParamValues == 1

(***************************************************************************)
(* Program constants.                                                      *)
(***************************************************************************)
DefaultMaxDepth == 2
DefaultMaxPages == 10
\* crawlSchema: the defaults and the largest values of maxDepth and maxPages
SchemaDefaultMaxDepth == 3
SchemaDefaultMaxPages == 100
SchemaMaxDepth == 10
SchemaMaxPages == 1000
MaxLinksPerPage == 20
\* queueConfigs: attempts of a job of each queue, workers of crawl-queue
ScrapeMaxRetries == 3
CrawlMaxRetries == 2
SearchMaxRetries == 2
CrawlConcurrency == 3
MinPagesForEstimation == 3

VARIABLES
  \* ---- persisted job record and queue entry (JobManager)
  dbStatus,         \* jobs.status, "absent" when the job has no record
  queueState,       \* the job's BullMQ entry: none, waiting, active,
                    \* completed or removed
  progressInFlight, \* a worker 'progress' event not yet handled
  \* ---- crawlMultiPage
  pc,               \* position of the crawl in crawlMultiPage
  maxPages,         \* crawlOptions.maxPages
  maxDepth,         \* crawlOptions.maxDepth
  tracking,         \* crawlOptions.enableProgressTracking
  crawled,          \* Set<string>
  toCrawl,          \* frontier, FIFO of [url, depth]
  results,          \* PageResult[]
  failedUrls,       \* string[]
  cur,              \* the entry popped by the current iteration
  pending,          \* the PageResult built by the current iteration
  \* ---- ProgressTracker of the job
  tracker,          \* CrawlProgress snapshot
  trackerActive,    \* the job has an entry in activeTrackers
  listeners,        \* number of registered update listeners
  \* ---- cancellation
  cancelWrite,      \* cancelCrawlJob's status write is outstanding
  cancelRequested,  \* "no", "whilePending" or "whileRunning"
  revisitFailed,    \* a page linked to a URL whose attempt had failed
  \* ---- BrowserManager
  maxInstances,     \* config.browser.maxInstances
  instances,        \* Map<browserId, [inUse, old]>
  launched,         \* browsers launched so far (ids are 1..launched)
  apc,              \* position of each acquirer
  target,           \* browserId an acquirer is closing / created / holds
  cursor,           \* position of an acquirer's cleanupOldInstances loop
  \* ---- one job of any kind: submission and processor (JobManager)
  kind,             \* payload.type: scrape, crawl or search
  via,              \* the caller of addJob: "postScrape", "postCrawl", "none"
  submit,           \* position of the submission
  response,         \* what the submission returned: none, jobId or error
  attemptsMade,     \* attempts of the job the queue has seen fail
  options,          \* the options of the crawl request, as the engine gets them
  \* ---- crawls running at once
  waiting,          \* crawl jobs waiting in crawl-queue
  workerCrawls,     \* crawl jobs the crawl worker is processing
  mcpCrawls,        \* job ids of crawls createMCPCrawlJob started, not yet ended
  activeCrawls,     \* the job ids that are keys of MCPIntegration.activeCrawls
  \* ---- LinkExtractor.normalizeUrl on one link
  href,             \* the link, as given or as normalizeUrl returned it
  stage,            \* none, raw, normalized (one call) or again (two calls)
  \* ---- calls of a ProgressTracker's methods by any caller
  lastEvent,        \* the method called last, "none" before the first call
  notified          \* listener calls made by that method

crawlVars == <<dbStatus, queueState, progressInFlight, pc, maxPages, maxDepth,
               tracking, crawled, toCrawl, results, failedUrls, cur, pending,
               tracker, trackerActive, listeners, cancelWrite, cancelRequested,
               revisitFailed>>
poolVars == <<maxInstances, instances, launched, apc, target, cursor>>
jobVars == <<kind, via, submit, response, attemptsMade, options>>
schedVars == <<waiting, workerCrawls, mcpCrawls, activeCrawls>>
urlVars == <<href, stage>>
noteVars == <<lastEvent, notified>>
vars == <<crawlVars, poolVars, jobVars, schedVars, urlVars, noteVars>>

(***************************************************************************)
(* URLs.  A URL is what `new URL(url)` parses it to: the segments of the   *)
(* pathname (0 is the empty segment, p >= 1 the name of page p), the       *)
(* name-value pairs of the query in their order (names and values numbered *)
(* in code-unit order) and the fragment ("" for none); two URLs are the    *)
(* same href iff they are the same record.  parsed = FALSE is a string     *)
(* that `new URL` rejects.  hostname numbers the hosts; 0 is the host of   *)
(* the crawled site.                                                       *)
(***************************************************************************)
Pages == 1..NumPages
Url(path, query, hash) ==
  [parsed |-> TRUE, hostname |-> 0, path |-> path, query |-> query,
   hash |-> hash]
NoUrl ==
  [parsed |-> FALSE, hostname |-> 0, path |-> <<>>, query |-> <<>>, hash |-> ""]
\* http://site/p and http://site/p/
PageUrl(p) == Url(<<p>>, <<>>, "")
PageUrlSlash(p) == Url(<<p, 0>>, <<>>, "")
\* the URLs the pages of the crawled site link to
Urls == {PageUrl(p) : p \in Pages} \cup {PageUrlSlash(p) : p \in Pages}
\* the same URLs on every host
Hosts == 0..(NumHosts - 1)
HostUrls == {[url EXCEPT !.hostname = h] : url \in Urls, h \in Hosts}
NoEntry == [url |-> NoUrl, depth |-> 0]

Min(a, b) == IF a < b THEN a ELSE b
Max(a, b) == IF a > b THEN a ELSE b
\* Math.round of the non-negative rational n / d
Round(n, d) == (2 * n + d) \div (2 * d)

Range(s) == {s[i] : i \in 1..Len(s)}

(***************************************************************************)
(* LinkExtractor, as used by extractAndFilterLinks.                        *)
(***************************************************************************)
\* [...new Set(s)]: first occurrences, in order
RECURSIVE Unique(_)
Unique(s) ==
  IF s = <<>> THEN <<>>
  ELSE LET front == Unique(SubSeq(s, 1, Len(s) - 1))
           last == s[Len(s)]
       IN IF last \in Range(front) THEN front ELSE Append(front, last)

\* Array.from(keys).sort(): insertion of x into a sorted sequence
Insert(sorted, x) ==
  LET k == Cardinality({i \in 1..Len(sorted) : sorted[i] <= x})
  IN SubSeq(sorted, 1, k) \o <<x>> \o SubSeq(sorted, k + 1, Len(sorted))

RECURSIVE Sort(_)
Sort(s) == IF s = <<>> THEN <<>> ELSE Insert(Sort(Tail(s)), Head(s))

\* searchParams.keys(): one name per pair, repeated names included
keys(query) == [i \in 1..Len(query) |-> query[i].name]

\* searchParams.getAll(name)
getAll(query, name) == SelectSeq(query, LAMBDA pair : pair.name = name)

\* the loop over paramNames: every value of the name is appended
RECURSIVE appendAll(_, _)
appendAll(paramNames, query) ==
  IF paramNames = <<>> THEN <<>>
  ELSE getAll(query, Head(paramNames)) \o appendAll(Tail(paramNames), query)

sortedParams(query) == appendAll(Sort(keys(query)), query)

\* pathname.slice(0, -1) when the pathname is longer than "/" and ends in "/"
trimmedPathname(path) ==
  IF Len(path) > 1 /\ path[Len(path)] = 0
  THEN SubSeq(path, 1, Len(path) - 1)
  ELSE path

normalizeUrl(url) ==
  IF ~url.parsed THEN url
  ELSE [url EXCEPT !.path = trimmedPathname(url.path),
                    !.query = sortedParams(url.query), !.hash = ""]

\* shouldIncludeLink that lets every host pass
shouldIncludeLinkAnyHost(url, baseUrl, opts) == url.parsed

\* shouldIncludeLink: the same-domain check (every URL here is the URL of a
\* page: none ends in an extension that is skipped)
shouldIncludeLink(url, baseUrl, opts) ==
  /\ url.parsed
  /\ ~(opts.sameDomainOnly /\ url.hostname # baseUrl.hostname)

\* extractLinks without the cut
extractLinksUncut(links, baseUrl, opts) == links

\* extractLinks: the links that shouldIncludeLink keeps, cut to the first
\* maxLinksPerPage; none if `new URL(baseUrl)` throws
extractLinks(links, baseUrl, opts) ==
  IF ~baseUrl.parsed THEN <<>>
  ELSE LET extractedLinks ==
             SelectSeq(links, LAMBDA link : shouldIncludeLink(link, baseUrl, opts))
       IN SubSeq(extractedLinks, 1, Min(Len(extractedLinks), opts.maxLinksPerPage))

deduplicateLinks(links) ==
  Unique([i \in 1..Len(links) |-> normalizeUrl(links[i])])

extractAndFilterLinks(links, currentUrl, opts) ==
  IF links = <<>> THEN <<>>
  ELSE deduplicateLinks(
         extractLinks(links, currentUrl,
                      [sameDomainOnly |-> opts.sameDomainOnly,
                       maxLinksPerPage |-> MaxLinksPerPage]))

\* the link lists a scraped page may carry
RawLinkLists == UNION {[1..n -> Urls] : n \in 0..MaxRawLinks}
\* the link lists of pages that link to other hosts too
HostLinkLists == UNION {[1..n -> HostUrls] : n \in 0..MaxRawLinks}

(***************************************************************************)
(* Errors thrown by scrapePage and the message the crawl loop records.     *)
(***************************************************************************)
Thrown ==
  { [isError |-> TRUE, message |-> "page.goto: Timeout exceeded"],
    [isError |-> TRUE,
     message |-> "No available browser instances and maximum limit reached"],
    [isError |-> FALSE, message |-> ""] }

ErrorMessage(error) == IF error.isError THEN error.message ELSE "Unknown error"

(***************************************************************************)
(* ProgressTracker.                                                        *)
(***************************************************************************)
initializeProgress(mp, md) ==
  [ totalPagesDiscovered |-> 1, pagesProcessed |-> 0, pagesSuccessful |-> 0,
    pagesFailed |-> 0, currentUrl |-> NoUrl, currentDepth |-> 0,
    currentPageNumber |-> 0, progressPercentage |-> 0, urlsInQueue |-> 1,
    maxDepth |-> md, maxPages |-> mp, status |-> "starting",
    phase |-> "discovering", errors |-> <<>>,
    \* currentTime - startTime in minutes; estimatedTimeRemaining is <<>>
    \* for null and <<ms>> for a number
    elapsedMinutes |-> 0, pagesPerMinute |-> 0, estimatedTimeRemaining |-> <<>> ]

\* the share of successful pages among the processed ones
calculateProgressOfSuccess(t) ==
  LET pct == IF t.pagesProcessed = 0 THEN 0
             ELSE Round(t.pagesSuccessful * 100, t.pagesProcessed)
  IN [t EXCEPT !.progressPercentage = pct]

\* the estimate is made as soon as a rate is known
calculateProgressEstimatesAtOnce(t) ==
  LET pct == Min(Round(t.pagesProcessed * 100, t.maxPages), 100)
      ppm == IF t.elapsedMinutes > 0
             THEN Round(t.pagesProcessed, t.elapsedMinutes)
             ELSE t.pagesPerMinute
      eta == IF ppm > 0
             THEN <<Round((t.maxPages - t.pagesProcessed) * 60000, ppm)>>
             ELSE t.estimatedTimeRemaining
  IN [t EXCEPT !.progressPercentage = pct, !.pagesPerMinute = ppm,
               !.estimatedTimeRemaining = eta]

calculateProgress(t) ==
  LET pct == Min(Round(t.pagesProcessed * 100, t.maxPages), 100)
      ppm == IF t.elapsedMinutes > 0
             THEN Round(t.pagesProcessed, t.elapsedMinutes)
             ELSE t.pagesPerMinute
      \* options.useSmartEstimation is true
      eta == IF t.pagesProcessed >= MinPagesForEstimation /\ ppm > 0
             THEN <<Round((t.maxPages - t.pagesProcessed) * 60000, ppm)>>
             ELSE t.estimatedTimeRemaining
      ph == IF pct >= 95 THEN "finishing"
            ELSE IF t.urlsInQueue = 0 /\ t.pagesProcessed > 0 THEN "finishing"
            ELSE IF t.pagesProcessed > 0 THEN "processing"
            ELSE "discovering"
  IN [t EXCEPT !.progressPercentage = pct, !.pagesPerMinute = ppm,
               !.estimatedTimeRemaining = eta, !.phase = ph]

\* the phase set by startProcessingPage is kept: calculateProgress not called
startProcessingPagePhaseKept(t, url, depth) ==
  [t EXCEPT !.currentUrl = url, !.currentDepth = depth,
            !.currentPageNumber = @ + 1,
            !.status = "crawling", !.phase = "processing"]

startProcessingPage(t, url, depth) ==
  calculateProgress([t EXCEPT !.currentUrl = url, !.currentDepth = depth,
                              !.currentPageNumber = @ + 1,
                              !.status = "crawling", !.phase = "processing"])

\* pageCompleted that forgets pagesSuccessful
pageCompletedNotCounted(t, linksFound) ==
  calculateProgress(
    [t EXCEPT !.pagesProcessed = @ + 1,
              !.totalPagesDiscovered = @ + linksFound,
              !.urlsInQueue = @ + linksFound])

pageCompleted(t, linksFound) ==
  calculateProgress(
    [t EXCEPT !.pagesProcessed = @ + 1, !.pagesSuccessful = @ + 1,
              !.totalPagesDiscovered = @ + linksFound,
              !.urlsInQueue = @ + linksFound])

pageFailedNoRecord(t, url, error) ==
  calculateProgress([t EXCEPT !.pagesProcessed = @ + 1, !.pagesFailed = @ + 1])

\* pageFailed that records the error and forgets pagesFailed
pageFailedNotCounted(t, url, error) ==
  calculateProgress(
    [t EXCEPT !.pagesProcessed = @ + 1,
              !.errors = Append(@, [url |-> url, error |-> error,
                                    depth |-> t.currentDepth])])

pageFailed(t, url, error) ==
  calculateProgress(
    [t EXCEPT !.pagesProcessed = @ + 1, !.pagesFailed = @ + 1,
              !.errors = Append(@, [url |-> url, error |-> error,
                                    depth |-> t.currentDepth])])

urlsDiscovered(t, n) ==
  [t EXCEPT !.totalPagesDiscovered = @ + n, !.urlsInQueue = @ + n]

updateQueueStatus(t, n) == calculateProgress([t EXCEPT !.urlsInQueue = n])

markCompleted(t) ==
  [t EXCEPT !.status = "completed", !.phase = "finishing",
            !.progressPercentage = 100]

markFailed(t) == [t EXCEPT !.status = "failed"]

\* emitUpdate: every registered listener posts a 'progress' event of the worker
emitUpdate(inFlight, n) == inFlight \/ n > 0

(***************************************************************************)
(* crawlMultiPage: option defaults and the checks of the loop.             *)
(***************************************************************************)
\* options.maxDepth || 2 and options.maxPages || 10 (0 stands for absent)
OptionOr(opt, default) == IF opt = 0 THEN default ELSE opt

\* const { url, options = {} } = req.body: a request without options
NoOptions == [maxDepth |-> 0, maxPages |-> 0, sameDomainOnly |-> "undefined"]

\* const crawlOptions = { ..., sameDomainOnly: options.sameDomainOnly !== false }
crawlOptions == [sameDomainOnly |-> options.sameDomainOnly # "false"]

\* crawlSchema.body.validate(body): the error, and the value with the defaults
\* of the schema filled in
crawlSchema(body) ==
  [error |-> \/ body.maxDepth > SchemaMaxDepth
             \/ body.maxPages > SchemaMaxPages
             \* a key the schema does not list is not allowed
             \/ body.sameDomainOnly # "undefined",
   value |-> [maxDepth |-> OptionOr(body.maxDepth, SchemaDefaultMaxDepth),
              maxPages |-> OptionOr(body.maxPages, SchemaDefaultMaxPages),
              sameDomainOnly |-> body.sameDomainOnly]]

\* validate(crawlSchema): only the error of the validation is read; next() is
\* called with req.body as it came
validate(body) == [error |-> crawlSchema(body).error, body |-> body]

NoResult ==
  [url |-> NoUrl, depth |-> 0, pageNumber |-> 0, success |-> FALSE, error |-> "",
   linksFound |-> 0]

\* toCrawl.length > 0 && results.length < crawlOptions.maxPages
LoopContinuesOverBudget(q, res, mp) == Len(q) > 0 /\ Len(res) <= mp

\* toCrawl.length > 0 alone: the loop runs until the frontier is empty
LoopContinuesUntilEmpty(q, res, mp) == Len(q) > 0

LoopContinues(q, res, mp) == Len(q) > 0 /\ Len(res) < mp

\* the depth limit: `depth > maxDepth` skips a popped entry, and links of a
\* page at `depth` are queued at depth + 1 only if `depth < maxDepth`
DepthAllowedOffByOne(depth, md) == depth <= md + 1

DepthAllowed(depth, md) == depth <= md

\* !toCrawl.some(item => item.url === link) left out
QueuedUrlsUnchecked(q) == {}

\* crawled.add(url)
MarkCrawledForgotten(set, url) == set

MarkCrawled(set, url) == set \cup {url}

QueuedUrls(q) == {q[i].url : i \in 1..Len(q)}

\* the for loop when a link is pushed without asking crawled.has(link)
RECURSIVE EnqueueLinksCrawledToo(_, _, _, _)
EnqueueLinksCrawledToo(q, links, set, depth) ==
  IF links = <<>> THEN q
  ELSE LET link == Head(links)
           q1 == IF link \notin QueuedUrls(q)
                 THEN Append(q, [url |-> link, depth |-> depth + 1])
                 ELSE q
       IN EnqueueLinksCrawledToo(q1, Tail(links), set, depth)

\* the for loop over discoveredLinks that pushes to toCrawl
RECURSIVE EnqueueLinks(_, _, _, _)
EnqueueLinks(q, links, set, depth) ==
  IF links = <<>> THEN q
  ELSE LET link == Head(links)
           q1 == IF link \notin set /\ link \notin QueuedUrls(q)
                 THEN Append(q, [url |-> link, depth |-> depth + 1])
                 ELSE q
       IN EnqueueLinks(q1, Tail(links), set, depth)

\* toCrawl.pop(): the entry pushed last
pop(q) == [entry |-> q[Len(q)], rest |-> SubSeq(q, 1, Len(q) - 1)]

\* toCrawl.shift()
shift(q) == [entry |-> Head(q), rest |-> Tail(q)]

Running == pc \in {"start", "begin", "loop", "scraping", "storing", "delay"}

\* the page attempt of the current iteration is in flight
InFlight == pc \in {"scraping", "storing"}

(***************************************************************************)
(* Initial state: the job was submitted (record pending, entry waiting).   *)
(***************************************************************************)
PoolIdle ==
  /\ maxInstances = 1
  /\ instances = <<>>
  /\ launched = 0
  /\ apc = [a \in 1..NumAcquirers |-> "idle"]
  /\ target = [a \in 1..NumAcquirers |-> 0]
  /\ cursor = [a \in 1..NumAcquirers |-> 0]

\* no submission is under way and no other crawl runs
JobIdle ==
  /\ kind = "crawl"
  /\ via = "none"
  /\ submit = "none"
  /\ response = "none"
  /\ attemptsMade = 0
  /\ options = NoOptions

SchedIdle ==
  /\ waiting = 0
  /\ workerCrawls = 0
  /\ mcpCrawls = {}
  /\ activeCrawls = {}

\* no tracker is called on its own
NoteIdle ==
  /\ lastEvent = "none"
  /\ notified = 0

\* no link is being normalized on its own
UrlIdle ==
  /\ href = NoUrl
  /\ stage = "none"

CrawlInit ==
  /\ NoteIdle
  /\ kind = "crawl"
  /\ via = "none"
  /\ submit = "none"
  /\ response = "none"
  /\ attemptsMade = 0
  /\ SchedIdle
  /\ UrlIdle
  /\ progressInFlight = FALSE
  /\ \E body \in [maxDepth : 0..MaxDepthOpt, maxPages : 0..MaxPagesOpt,
                   sameDomainOnly : {"undefined", "true", "false"}] :
       /\ ~validate(body).error
       /\ options = validate(body).body
  /\ maxPages = OptionOr(options.maxPages, DefaultMaxPages)
  /\ maxDepth = OptionOr(options.maxDepth, DefaultMaxDepth)
  \* no caller of crawlMultiPage passes enableProgressTracking
  /\ tracking = TRUE
  /\ crawled = {}
  /\ \E startUrl \in {PageUrl(1), PageUrlSlash(1)} :
       toCrawl = <<[url |-> startUrl, depth |-> 0]>>
  /\ results = <<>>
  /\ failedUrls = <<>>
  /\ cur = NoEntry
  /\ pending = NoResult
  /\ tracker = initializeProgress(maxPages, maxDepth)
  /\ trackerActive = FALSE
  /\ listeners = 0
  /\ cancelWrite = FALSE
  /\ cancelRequested = "no"
  /\ revisitFailed = FALSE
  /\ PoolIdle

\* no crawl is in progress (the pool is used by single-page scrapes too)
CrawlIdle ==
  /\ progressInFlight = FALSE
  /\ maxPages = DefaultMaxPages
  /\ maxDepth = DefaultMaxDepth
  /\ tracking = TRUE
  /\ crawled = {}
  /\ toCrawl = <<>>
  /\ results = <<>>
  /\ failedUrls = <<>>
  /\ cur = NoEntry
  /\ pending = NoResult
  /\ tracker = initializeProgress(DefaultMaxPages, DefaultMaxDepth)
  /\ trackerActive = FALSE
  /\ listeners = 0
  /\ cancelWrite = FALSE
  /\ cancelRequested = "no"
  /\ revisitFailed = FALSE

\* JobManager.addJob returned for a crawl job: the record is pending, the
\* entry waits
Init ==
  /\ dbStatus = "pending"
  /\ queueState = "waiting"
  /\ pc = "queued"
  /\ CrawlInit

\* createMCPCrawlJob: crawlMultiPage is called at once
InitEngine ==
  /\ dbStatus = "absent"
  /\ queueState = "none"
  /\ pc = "start"
  /\ CrawlInit

\* UPDATE jobs SET status = $1 ... WHERE id = $n
UpdatedStatus(status) == IF dbStatus = "absent" THEN dbStatus ELSE status

(***************************************************************************)
(* JobManager worker and crawlMultiPage.                                   *)
(***************************************************************************)
\* getJobProcessor: the worker takes the job and writes `processing`
WorkerDequeue ==
  /\ queueState = "waiting"
  /\ queueState' = "active"
  /\ dbStatus' = "processing"
  /\ pc' = "start"
  /\ UNCHANGED <<progressInFlight, maxPages, maxDepth, tracking, crawled,
                 toCrawl, results, failedUrls, cur, pending, tracker,
                 trackerActive, listeners, cancelWrite, cancelRequested,
                 revisitFailed, poolVars, jobVars, schedVars, urlVars, noteVars>>

\* crawlMultiPage up to its first await: tracker, activeTrackers, listener
CrawlStart ==
  /\ pc = "start"
  /\ pc' = "begin"
  /\ tracker' = initializeProgress(maxPages, maxDepth)
  /\ trackerActive' = tracking
  \* the worker passes a progressCallback, createMCPCrawlJob none
  /\ listeners' = IF tracking /\ queueState = "active" THEN 1 ELSE 0
  /\ UNCHANGED <<dbStatus, queueState, progressInFlight, maxPages, maxDepth,
                 tracking, crawled, toCrawl, results, failedUrls, cur, pending,
                 cancelWrite, cancelRequested, revisitFailed, poolVars, jobVars, schedVars, urlVars, noteVars>>

\* await this.updateJobStatus(jobId, 'processing', 0)
CrawlBegin ==
  /\ pc = "begin"
  /\ pc' = "loop"
  /\ dbStatus' = UpdatedStatus("processing")
  /\ UNCHANGED <<queueState, progressInFlight, maxPages, maxDepth, tracking,
                 crawled, toCrawl, results, failedUrls, cur, pending, tracker,
                 trackerActive, listeners, cancelWrite, cancelRequested,
                 revisitFailed, poolVars, jobVars, schedVars, urlVars, noteVars>>

\* one pass of the while loop up to scrapePage
LoopPop ==
  /\ pc = "loop"
  /\ LoopContinues(toCrawl, results, maxPages)
  /\ LET entry == shift(toCrawl).entry
     IN /\ toCrawl' = shift(toCrawl).rest
        /\ IF entry.url \in crawled \/ ~DepthAllowed(entry.depth, maxDepth)
           THEN UNCHANGED <<pc, crawled, cur, tracker, progressInFlight>>
           ELSE /\ crawled' = MarkCrawled(crawled, entry.url)
                /\ cur' = entry
                /\ tracker' = IF tracking
                              THEN startProcessingPage(tracker, entry.url,
                                                       entry.depth)
                              ELSE tracker
                /\ progressInFlight' =
                     IF tracking THEN emitUpdate(progressInFlight, listeners)
                     ELSE progressInFlight \/ queueState = "active"
                /\ pc' = "scraping"
  /\ UNCHANGED <<dbStatus, queueState, maxPages, maxDepth, tracking, results,
                 failedUrls, pending, trackerActive, listeners, cancelWrite,
                 cancelRequested, revisitFailed, poolVars, jobVars, schedVars, urlVars, noteVars>>

\* scrapePage returned `links`: they are filtered and queued, the tracker
\* updated
PageScraped(links) ==
  /\ pc = "scraping"
  /\ LET discoveredLinks == extractAndFilterLinks(links, cur.url, crawlOptions)
           queue == IF DepthAllowed(cur.depth + 1, maxDepth)
                    THEN EnqueueLinks(toCrawl, discoveredLinks, crawled,
                                      cur.depth)
                    ELSE toCrawl
           newUrls == Len(queue) - Len(toCrawl)
           t1 == pageCompleted(tracker, Len(discoveredLinks))
           t2 == IF newUrls > 0 THEN urlsDiscovered(t1, newUrls) ELSE t1
       IN /\ toCrawl' = queue
          /\ tracker' = IF tracking THEN updateQueueStatus(t2, Len(queue))
                        ELSE tracker
          /\ progressInFlight' =
               IF tracking THEN emitUpdate(progressInFlight, listeners)
               ELSE progressInFlight
          /\ pending' = [url |-> cur.url, depth |-> cur.depth,
                         pageNumber |-> Len(results) + 1, success |-> TRUE,
                         error |-> "", linksFound |-> Len(discoveredLinks)]
          /\ revisitFailed' =
               (revisitFailed \/ Range(discoveredLinks) \cap Range(failedUrls) # {})
  /\ pc' = "storing"
  /\ UNCHANGED <<dbStatus, queueState, maxPages, maxDepth, tracking, crawled,
                 results, failedUrls, cur, trackerActive, listeners,
                 cancelWrite, cancelRequested, poolVars, jobVars, schedVars, urlVars, noteVars>>

ScrapeSucceeds == \E links \in RawLinkLists : PageScraped(links)

\* scrapePage threw: the catch block of the page
ScrapeFails ==
  /\ pc = "scraping"
  /\ \E error \in Thrown :
       LET errorMessage == ErrorMessage(error)
       IN /\ failedUrls' = Append(failedUrls, cur.url)
          /\ tracker' = IF tracking
                        THEN updateQueueStatus(
                               pageFailed(tracker, cur.url, errorMessage),
                               Len(toCrawl))
                        ELSE tracker
          /\ progressInFlight' =
               IF tracking THEN emitUpdate(progressInFlight, listeners)
               ELSE progressInFlight
          /\ pending' = [url |-> cur.url, depth |-> cur.depth,
                         pageNumber |-> Len(results) + 1, success |-> FALSE,
                         error |-> errorMessage, linksFound |-> 0]
  /\ pc' = "storing"
  /\ UNCHANGED <<dbStatus, queueState, maxPages, maxDepth, tracking, crawled,
                 toCrawl, results, cur, trackerActive, listeners, cancelWrite,
                 cancelRequested, revisitFailed, poolVars, jobVars, schedVars, urlVars, noteVars>>

\* the page ends without the delay
StorePageResultNoDelay ==
  /\ pc = "storing"
  /\ results' = Append(results, pending)
  /\ pending' = NoResult
  /\ cur' = NoEntry
  /\ pc' = "loop"
  /\ UNCHANGED <<dbStatus, queueState, progressInFlight, maxPages, maxDepth,
                 tracking, crawled, toCrawl, failedUrls, tracker,
                 trackerActive, listeners, cancelWrite, cancelRequested,
                 revisitFailed, poolVars, jobVars, schedVars, urlVars, noteVars>>

\* storePageResult returned: results.push, then the politeness delay if the
\* frontier is not empty (delayBetweenRequests is options.delayBetweenRequests
\* || 1000, or 1500 from createMCPCrawlJob: it is never 0)
StorePageResult ==
  /\ pc = "storing"
  /\ results' = Append(results, pending)
  /\ pending' = NoResult
  /\ cur' = NoEntry
  /\ pc' = IF Len(toCrawl) > 0 THEN "delay" ELSE "loop"
  /\ UNCHANGED <<dbStatus, queueState, progressInFlight, maxPages, maxDepth,
                 tracking, crawled, toCrawl, failedUrls, tracker,
                 trackerActive, listeners, cancelWrite, cancelRequested,
                 revisitFailed, poolVars, jobVars, schedVars, urlVars, noteVars>>

DelayDone ==
  /\ pc = "delay"
  /\ pc' = "loop"
  /\ UNCHANGED <<dbStatus, queueState, progressInFlight, maxPages, maxDepth,
                 tracking, crawled, toCrawl, results, failedUrls, cur, pending,
                 tracker, trackerActive, listeners, cancelWrite,
                 cancelRequested, revisitFailed, poolVars, jobVars, schedVars, urlVars, noteVars>>

\* the loop ended: the result is built and the tracker marked completed
LoopExit ==
  /\ pc = "loop"
  /\ ~LoopContinues(toCrawl, results, maxPages)
  /\ tracker' = IF tracking THEN markCompleted(tracker) ELSE tracker
  /\ progressInFlight' =
       IF tracking THEN emitUpdate(progressInFlight, listeners)
       ELSE progressInFlight
  /\ pc' = "finalizing"
  /\ UNCHANGED <<dbStatus, queueState, maxPages, maxDepth, tracking, crawled,
                 toCrawl, results, failedUrls, cur, pending, trackerActive,
                 listeners, cancelWrite, cancelRequested, revisitFailed,
                 poolVars, jobVars, schedVars, urlVars, noteVars>>

\* updateJobStatus(jobId, 'completed', 100, crawlResult), then the finally block
CrawlComplete ==
  /\ pc = "finalizing"
  /\ dbStatus' = UpdatedStatus("completed")
  /\ listeners' = 0
  /\ trackerActive' = FALSE
  /\ pc' = "returned"
  /\ UNCHANGED <<queueState, progressInFlight, maxPages, maxDepth, tracking,
                 crawled, toCrawl, results, failedUrls, cur, pending, tracker,
                 cancelWrite, cancelRequested, revisitFailed, poolVars, jobVars, schedVars, urlVars, noteVars>>

\* processCrawlJob: crawlMultiPage returned, whatever its page results
processCrawlJobPagesDecide(res) ==
  [success |-> \A i \in 1..Len(res) : res[i].success, pages |-> Len(res)]

processCrawlJob(res) == [success |-> TRUE, pages |-> Len(res)]

\* getJobProcessor: result.success ? 'completed' : 'failed'
ResultStatus(result) == IF result.success THEN "completed" ELSE "failed"

\* processCrawlJob returned: the processor writes the status of the result
WorkerComplete ==
  /\ pc = "returned"
  /\ queueState = "active"
  /\ dbStatus' = UpdatedStatus(ResultStatus(processCrawlJob(results)))
  /\ queueState' = "completed"
  /\ pc' = "done"
  /\ UNCHANGED <<progressInFlight, maxPages, maxDepth, tracking, crawled,
                 toCrawl, results, failedUrls, cur, pending, tracker,
                 trackerActive, listeners, cancelWrite, cancelRequested,
                 revisitFailed, poolVars, jobVars, schedVars, urlVars, noteVars>>

\* worker.on('progress'): handleJobProgress writes `processing`
HandleJobProgress ==
  /\ progressInFlight
  /\ dbStatus' = UpdatedStatus("processing")
  /\ progressInFlight' \in BOOLEAN
  /\ UNCHANGED <<queueState, pc, maxPages, maxDepth, tracking, crawled,
                 toCrawl, results, failedUrls, cur, pending, tracker,
                 trackerActive, listeners, cancelWrite, cancelRequested,
                 revisitFailed, poolVars, jobVars, schedVars, urlVars, noteVars>>

(***************************************************************************)
(* Cancellation.                                                           *)
(***************************************************************************)
\* callers learn the job id from the answer of the submission
IdKnown == submit \in {"none", "done"}

Requested ==
  IF Running THEN "whileRunning"
  ELSE IF pc = "queued" /\ cancelRequested = "no" THEN "whilePending"
  ELSE cancelRequested

\* CrawlingService.cancelCrawlJob (the cancel_crawl tool) up to its await
CancelCrawlJob ==
  /\ trackerActive
  /\ tracker' = markFailed(tracker)
  /\ progressInFlight' = emitUpdate(progressInFlight, listeners)
  /\ listeners' = 0
  /\ trackerActive' = FALSE
  /\ cancelWrite' = TRUE
  /\ cancelRequested' = Requested
  /\ UNCHANGED <<dbStatus, queueState, pc, maxPages, maxDepth, tracking,
                 crawled, toCrawl, results, failedUrls, cur, pending,
                 revisitFailed, poolVars, jobVars, schedVars, urlVars, noteVars>>

\* cancelCrawlJob: updateJobStatus(jobId, 'cancelled', 0, undefined, ...)
CancelCrawlJobWrite ==
  /\ cancelWrite
  /\ cancelWrite' = FALSE
  /\ dbStatus' = UpdatedStatus("cancelled")
  /\ UNCHANGED <<queueState, progressInFlight, pc, maxPages, maxDepth,
                 tracking, crawled, toCrawl, results, failedUrls, cur, pending,
                 tracker, trackerActive, listeners, cancelRequested,
                 revisitFailed, poolVars, jobVars, schedVars, urlVars, noteVars>>

\* DELETE /crawl/:jobId: UPDATE ... WHERE status IN ('pending', 'processing')
DeleteCrawl ==
  /\ IdKnown
  /\ dbStatus \in {"pending", "processing"}
  /\ dbStatus' = "cancelled"
  /\ cancelRequested' = Requested
  /\ UNCHANGED <<queueState, progressInFlight, pc, maxPages, maxDepth,
                 tracking, crawled, toCrawl, results, failedUrls, cur, pending,
                 tracker, trackerActive, listeners, cancelWrite,
                 revisitFailed, poolVars, jobVars, schedVars, urlVars, noteVars>>

\* JobManager.cancelJob; job.remove() throws for the entry a worker holds,
\* and then nothing is written
CancelJob ==
  /\ IdKnown
  /\ dbStatus \notin {"absent", "completed"}
  /\ queueState # "active"
  /\ queueState' = "removed"
  /\ dbStatus' = "cancelled"
  /\ cancelRequested' = Requested
  /\ UNCHANGED <<progressInFlight, pc, maxPages, maxDepth, tracking, crawled,
                 toCrawl, results, failedUrls, cur, pending, tracker,
                 trackerActive, listeners, cancelWrite, revisitFailed,
                 poolVars, jobVars, schedVars, urlVars, noteVars>>

Next ==
  \/ WorkerDequeue
  \/ CrawlStart
  \/ CrawlBegin
  \/ LoopPop
  \/ ScrapeSucceeds
  \/ ScrapeFails
  \/ StorePageResult
  \/ DelayDone
  \/ LoopExit
  \/ CrawlComplete
  \/ WorkerComplete
  \/ HandleJobProgress
  \/ CancelCrawlJob
  \/ CancelCrawlJobWrite
  \/ DeleteCrawl
  \/ CancelJob

Spec == Init /\ [][Next]_vars

NextEngine ==
  \/ CrawlStart
  \/ CrawlBegin
  \/ LoopPop
  \/ ScrapeSucceeds
  \/ ScrapeFails
  \/ StorePageResult
  \/ DelayDone
  \/ LoopExit
  \/ CrawlComplete
  \/ CancelCrawlJob
  \/ CancelCrawlJobWrite

SpecEngine == InitEngine /\ [][NextEngine]_vars

\* the same crawl when every await returns: each page extraction returns or
\* throws, and the store writes and the delay end
SpecEngineFair ==
  /\ SpecEngine
  /\ WF_vars(CrawlStart) /\ WF_vars(CrawlBegin) /\ WF_vars(LoopPop)
  /\ WF_vars(ScrapeSucceeds \/ ScrapeFails) /\ WF_vars(StorePageResult)
  /\ WF_vars(DelayDone) /\ WF_vars(LoopExit) /\ WF_vars(CrawlComplete)

\* a crawl of at most MaxPagesOpt pages, each of which links to the first n
\* of the pages 2, 3, ..., in this order
InitLinks ==
  /\ InitEngine
  /\ options.maxPages # 0

ScrapeManyLinks ==
  \E n \in 0..MaxManyLinks : PageScraped([i \in 1..n |-> PageUrl(i + 1)])

NextLinks ==
  \/ CrawlStart
  \/ CrawlBegin
  \/ LoopPop
  \/ ScrapeManyLinks
  \/ ScrapeFails
  \/ StorePageResult
  \/ DelayDone
  \/ LoopExit
  \/ CrawlComplete

SpecLinks == InitLinks /\ [][NextLinks]_vars

\* a crawl of a site whose pages link to pages of other hosts as well
InitHosts ==
  /\ InitEngine
  /\ options.maxPages # 0

ScrapeLinkedHosts == \E links \in HostLinkLists : PageScraped(links)

NextHosts ==
  \/ CrawlStart
  \/ CrawlBegin
  \/ LoopPop
  \/ ScrapeLinkedHosts
  \/ ScrapeFails
  \/ StorePageResult
  \/ DelayDone
  \/ LoopExit
  \/ CrawlComplete

SpecHosts == InitHosts /\ [][NextHosts]_vars

\* a crawl job of the queue that nobody cancels
NextWorker ==
  \/ WorkerDequeue
  \/ CrawlStart
  \/ CrawlBegin
  \/ LoopPop
  \/ ScrapeSucceeds
  \/ ScrapeFails
  \/ StorePageResult
  \/ DelayDone
  \/ LoopExit
  \/ CrawlComplete
  \/ WorkerComplete
  \/ HandleJobProgress

SpecWorker == Init /\ [][NextWorker]_vars

\* the same job when every await returns: the worker takes the job, page
\* extractions and store writes end, and each progress event is handled
SpecWorkerFair ==
  /\ SpecWorker
  /\ WF_vars(WorkerDequeue) /\ WF_vars(CrawlStart) /\ WF_vars(CrawlBegin)
  /\ WF_vars(LoopPop) /\ WF_vars(ScrapeSucceeds \/ ScrapeFails)
  /\ WF_vars(StorePageResult) /\ WF_vars(DelayDone) /\ WF_vars(LoopExit)
  /\ WF_vars(CrawlComplete) /\ WF_vars(WorkerComplete)
  /\ WF_vars(HandleJobProgress)

(***************************************************************************)
(* Properties of the crawl loop.                                           *)
(***************************************************************************)
Terminal == {"completed", "failed", "cancelled"}
FailedResults == {i \in 1..Len(results) : ~results[i].success}
ResultUrls == {results[i].url : i \in 1..Len(results)}

\* C1: the page results recorded, and the tracker's pagesProcessed, never
\* exceed maxPages, whatever the links found and whichever pages fail.
C1_PagesWithinBudget ==
  /\ Len(results) <= maxPages
  /\ tracker.pagesProcessed <= maxPages

\* the budget is used up by a success and a failure while URLs still wait
C1_BudgetReached ==
  /\ Len(results) = maxPages
  /\ tracker.pagesProcessed = maxPages
  /\ toCrawl # <<>>
  /\ FailedResults # {}
  /\ \E i \in 1..Len(results) : results[i].success

\* C2: every page the loop processes, recorded or in flight, has
\* depth <= maxDepth.
C2_DepthWithinLimit ==
  /\ \A i \in 1..Len(results) : results[i].depth <= maxDepth
  /\ cur.depth <= maxDepth
  /\ pending.depth <= maxDepth

\* a page at depth maxDepth was processed and its links were not followed
C2_DeepestPageProcessed ==
  /\ \E i \in 1..Len(results) :
       /\ results[i].depth = maxDepth
       /\ results[i].linksFound > 0
  /\ toCrawl = <<>>
  /\ Len(results) < maxPages

\* C3: no URL is processed twice: the page results hold no two entries with
\* the same URL and the page in flight is none of them, also after a failed
\* attempt at a URL that is linked again.
C3_NoUrlTwice ==
  /\ \A i, j \in 1..Len(results) :
       i # j => results[i].url # results[j].url
  /\ InFlight => cur.url \notin ResultUrls

\* a later page linked to a URL whose attempt had failed; the crawl ended
C3_FailedUrlLinkedAgain ==
  /\ revisitFailed
  /\ pc = "returned"
  /\ Len(results) >= 3

\* C4: once cancellation was requested for the running crawl and no page is
\* in flight, the loop starts no page.
C4_NoNewPageAfterCancel ==
  [][(cancelRequested = "whileRunning" /\ ~InFlight) => (pc' # "scraping")]_vars

\* C5: a job cancelled while it ran ends as cancelled, in the job record and
\* in the tracker, once the crawl has returned and no write is outstanding.
C5_CancelledJobEndsCancelled ==
  (cancelRequested = "whileRunning" /\ pc = "done" /\ ~cancelWrite
     /\ ~progressInFlight)
    => (dbStatus = "cancelled" /\ tracker.status = "cancelled")

\* C6: a terminal persisted status is never changed to another status.
C6_TerminalStatusIsFinal ==
  [][(dbStatus \in Terminal) => (dbStatus' = dbStatus)]_vars

\* C34: crawlMultiPage ends for every maxPages and all links the pages may
\* carry, cycles among them: it makes at most maxPages page attempts, and
\* then it finalizes the job and returns.
C34_CrawlTerminates ==
  /\ [](Len(results) + (IF InFlight THEN 1 ELSE 0) <= maxPages)
  /\ <>[](pc = "returned")

\* the crawl returned after maxPages pages, with links left in the frontier
C34_ReturnedWithFrontierLeft ==
  /\ pc = "returned"
  /\ maxPages >= 2
  /\ Len(results) = maxPages
  /\ Len(toCrawl) > 0

\* C36: between two passes of the loop of a crawl that tracks its progress,
\* the tracker's pagesProcessed is the number of page results, and its
\* pagesSuccessful and pagesFailed are the numbers of results that succeeded
\* and that failed.
C36_TrackerCountsMatchResults ==
  (tracking /\ pc \in {"loop", "delay", "finalizing", "returned"})
    => /\ tracker.pagesProcessed = Len(results)
       /\ tracker.pagesSuccessful = Len(results) - Cardinality(FailedResults)
       /\ tracker.pagesFailed = Cardinality(FailedResults)

\* the loop is between two pages, one page has failed and one has succeeded
C36_BothKindsCounted ==
  /\ pc = "delay"
  /\ tracker.pagesFailed >= 1
  /\ tracker.pagesSuccessful >= 1

\* C37: with sameDomainOnly in effect, every page a crawl processes (the
\* pages of its results and the page it is working on) has the hostname of
\* the start URL.
C37_PagesOnStartHost ==
  crawlOptions.sameDomainOnly
    => /\ \A i \in 1..Len(results) : results[i].url.hostname = 0
       /\ (InFlight => cur.url.hostname = 0)
       /\ \A i \in 1..Len(toCrawl) : toCrawl[i].url.hostname = 0

\* two pages were processed, the second one found through a link
C37_LinkedPageProcessed ==
  /\ crawlOptions.sameDomainOnly
  /\ Len(results) >= 2
  /\ results[2].depth = 1
  /\ results[2].success

\* C38: between two passes of the loop no URL of the frontier is in the
\* visited set and no entry of the frontier is deeper than maxDepth; so every
\* entry taken from the frontier is processed, none is skipped.
C38_FrontierFreshAndShallow ==
  /\ [](pc \in {"loop", "delay"}
          => /\ QueuedUrls(toCrawl) \cap crawled = {}
             /\ \A i \in 1..Len(toCrawl) : toCrawl[i].depth <= maxDepth)
  /\ [][(pc = "loop" /\ Len(toCrawl') < Len(toCrawl)) => pc' = "scraping"]_vars

\* a page that links to a page crawled before and to a new one has been
\* processed, and the new one waits in the frontier
C38_CrawledLinkNotQueued ==
  /\ pc = "delay"
  /\ Len(results) >= 2
  /\ results[Len(results)].success
  /\ results[Len(results)].linksFound >= 2
  /\ Len(toCrawl) = 1

\* C40: the tracker's totalPagesDiscovered is 1 plus the number of URLs the
\* crawl has added to the frontier (every URL added is still in the frontier
\* or was taken from it and is in the visited set, as the start URL is).
C40_DiscoveredCountsFrontierAdds ==
  tracking => tracker.totalPagesDiscovered = Len(toCrawl) + Cardinality(crawled)

\* C33: a job that a worker has taken eventually has a terminal persisted
\* status and keeps it from then on, whenever the progress events are handled.
C33_EventuallyTerminalForGood == <>[](dbStatus \in Terminal)

\* C10: a failed extraction leaves exactly one page result for the URL, with
\* success = false and a non-empty error, and one entry in the tracker's
\* error list; the crawl ends only when the frontier is empty or the page
\* budget is used up.
C10_FailureRecordedCrawlContinues ==
  /\ \A i \in FailedResults : results[i].error # ""
  /\ \A k \in 1..Len(failedUrls) :
       Cardinality({i \in 1..Len(results) : results[i].url = failedUrls[k]})
         = IF pc = "storing" /\ k = Len(failedUrls) /\ ~pending.success
           THEN 0 ELSE 1
  /\ Len(failedUrls) = Len(tracker.errors)
  /\ \A k \in 1..Len(failedUrls) :
       /\ tracker.errors[k].url = failedUrls[k]
       /\ tracker.errors[k].error # ""
       /\ \A i \in 1..Len(results) :
            results[i].url = failedUrls[k]
              => ~results[i].success /\ results[i].error = tracker.errors[k].error
  /\ Cardinality(FailedResults) =
       Len(failedUrls) - (IF pc = "storing" /\ ~pending.success THEN 1 ELSE 0)
  /\ pc \in {"finalizing", "returned"}
       => (toCrawl = <<>> \/ Len(results) >= maxPages)

\* a page failed and a later page was processed
C10_CrawlWentOnAfterFailure ==
  \E i \in FailedResults : i < Len(results) /\ Len(tracker.errors) >= 1

\* C11: page failures never make the job or its tracker failed, and the
\* worker's status write at the end of the crawl is `completed`.
C11_PageFailuresNeverFailJob ==
  /\ [](dbStatus # "failed" /\ tracker.status # "failed")
  /\ [][(pc = "returned" /\ pc' = "done") => (dbStatus' = "completed")]_vars

\* the last of several pages failed and the job is completed
C11_PagesFailedJobCompleted ==
  /\ pc = "done"
  /\ Len(results) >= 2
  /\ ~results[Len(results)].success
  /\ dbStatus = "completed"
  /\ tracker.status = "completed"

\* every single call of the tracker on the snapshot t
TrackerEvents(t) ==
  {startProcessingPage(t, u, d) : u \in Urls, d \in 0..DefaultMaxDepth}
    \cup {pageCompleted(t, n) : n \in 0..MaxRawLinks}
    \cup {pageFailed(t, u, ErrorMessage(e)) : u \in Urls, e \in Thrown}
    \cup {urlsDiscovered(t, n) : n \in 1..MaxRawLinks}
    \cup {updateQueueStatus(t, n) : n \in 0..MaxRawLinks}
    \cup {markCompleted(t), markFailed(t)}

\* C17: the tracker's status only moves from starting to crawling and from
\* there (or from starting) to a terminal status, and a terminal status is
\* never changed by a later tracker event.
C17_TrackerStatusOnlyForward ==
  [][\/ tracker'.status = tracker.status
     \/ tracker.status = "starting" /\ tracker'.status = "crawling"
     \/ tracker.status \in {"starting", "crawling"}
          /\ tracker'.status \in Terminal]_vars

\* C18: while the tracker's status is not terminal, no step of the crawl and
\* no single tracker call lowers the progress percentage.
C18_PercentageNeverDecreases ==
  [][(tracker.status \notin Terminal)
       => (\A t \in {tracker'} \cup TrackerEvents(tracker) :
             t.progressPercentage >= tracker.progressPercentage)]_vars

\* the percentage stands between 0 and 100 after a success and a failure
C18_PercentageRoseTwice ==
  /\ tracker.status = "crawling"
  /\ tracker.pagesSuccessful >= 1
  /\ tracker.pagesFailed >= 1
  /\ tracker.progressPercentage > 0
  /\ tracker.progressPercentage < 100

\* C20: the frontier never holds two entries with the same URL, and no URL
\* of the frontier has been taken from it before.
C20_FrontierHoldsUrlOnce ==
  /\ \A i, j \in 1..Len(toCrawl) : i # j => toCrawl[i].url # toCrawl[j].url
  /\ \A i \in 1..Len(toCrawl) : toCrawl[i].url \notin crawled

\* a page found every URL, one of them already queued by an earlier page:
\* that URL is in the frontier once
C20_QueuedUrlFoundAgain ==
  /\ pc = "storing"
  /\ pending.success
  /\ pending.linksFound = NumPages
  /\ cur.depth < maxDepth
  /\ Len(toCrawl) = 1
  /\ toCrawl[1].depth <= cur.depth
  /\ toCrawl[1].url # cur.url

\* C21: pages are processed breadth first: the depths of the page results,
\* then of the page in flight, then of the frontier never decrease; the
\* loop takes the oldest entry of the frontier, and every other step leaves
\* the frontier as it is or adds entries after the ones it holds.
C21_BreadthFirstFifo ==
  /\ [](LET depths ==
            [i \in 1..Len(results) |-> results[i].depth]
              \o (IF InFlight THEN <<cur.depth>> ELSE <<>>)
              \o [i \in 1..Len(toCrawl) |-> toCrawl[i].depth]
        IN \A i, j \in 1..Len(depths) : i < j => depths[i] <= depths[j])
  /\ [][IF pc = "loop" /\ toCrawl' # toCrawl
        THEN /\ toCrawl' = Tail(toCrawl)
             /\ (pc' = "scraping") => (cur' = Head(toCrawl))
        ELSE /\ Len(toCrawl) <= Len(toCrawl')
             /\ SubSeq(toCrawl', 1, Len(toCrawl)) = toCrawl]_vars

\* two pages found on the start page were processed in the order found
C21_SiblingsInDiscoveryOrder ==
  /\ Len(results) = 3
  /\ results[2].depth = 1 /\ results[2].url = PageUrl(1)
  /\ results[3].depth = 1 /\ results[3].url = PageUrl(2)

C30_PageAddsAtMostCapLinks ==
  [][(pc = "scraping" /\ pc' = "storing")
       => LET added == SubSeq(toCrawl', Len(toCrawl) + 1, Len(toCrawl'))
          IN /\ SubSeq(toCrawl', 1, Len(toCrawl)) = toCrawl
             /\ Len(added) <= MaxLinksPerPage
             /\ \A i \in 1..Len(added) :
                  /\ added[i].depth = cur.depth + 1
                  /\ added[i].depth <= maxDepth
                  /\ added[i].url.path[1] \in 2..(MaxLinksPerPage + 1)
                  /\ \A j \in 1..(i - 1) :
                       added[j].url.path[1] < added[i].url.path[1]]_vars

\* a page that links to more than 20 pages was processed: 20 entries, those of
\* its first 20 links, were added to the frontier
C30_CapReached ==
  /\ pc = "storing"
  /\ pending.linksFound = MaxLinksPerPage
  /\ Len(toCrawl) = MaxLinksPerPage
  /\ toCrawl[MaxLinksPerPage].url = PageUrl(MaxLinksPerPage + 1)

\* C29: between two page fetches of a crawl the politeness delay is slept: a
\* fetch starts only from the head of the loop, and after a page the head of
\* the loop is reached with a frontier to go on with only from the delay.
C29_DelayBetweenFetches ==
  /\ [][(pc' = "scraping" /\ pc # "scraping") => (pc = "loop")]_vars
  /\ [][(pc # "loop" /\ pc' = "loop" /\ Len(results') > 0 /\ Len(toCrawl') > 0)
          => (pc = "delay")]_vars

\* the fetch of a second page has started
C29_SecondFetchStarted ==
  /\ pc = "scraping"
  /\ Len(results) >= 1

Acquirers == 1..NumAcquirers
BrowserIds == DOMAIN instances
Size == Cardinality(BrowserIds)
InUseIds == {id \in BrowserIds : instances[id].inUse}
MinOf(S) == CHOOSE x \in S : \A y \in S : x <= y

Without(map, id) == [k \in DOMAIN map \ {id} |-> map[k]]
With(map, id, inst) ==
  [k \in DOMAIN map \cup {id} |-> IF k = id THEN inst ELSE map[k]]

\* the browsers being launched now and those launched before stay within
\* MaxLaunches
MayStart ==
  launched + Cardinality({a \in Acquirers : apc[a] = "launching"}) < MaxLaunches

\* cleanupOldInstances from the entry after `from`, in `map`: the next idle
\* instance older than maxAge is closed (an await), if there is one
OldIdleAfter(map, from) ==
  {id \in DOMAIN map : id > from /\ ~map[id].inUse /\ map[id].old}

\* getBrowser after cleanup: reuse the first idle instance, else launch a
\* browser if instances.size < maxInstances, else throw
ScanFrom(a, map) ==
  LET idle == {id \in DOMAIN map : ~map[id].inUse}
  IN IF idle # {}
     THEN /\ instances' = [map EXCEPT ![MinOf(idle)] =
                             [inUse |-> TRUE, old |-> FALSE]]
          /\ target' = [target EXCEPT ![a] = MinOf(idle)]
          /\ apc' = [apc EXCEPT ![a] = "holding"]
     ELSE /\ instances' = map
          /\ target' = [target EXCEPT ![a] = 0]
          /\ apc' = [apc EXCEPT ![a] =
                       IF Cardinality(DOMAIN map) < maxInstances
                       THEN "launching" ELSE "exhausted"]

\* the for loop of cleanupOldInstances, resumed in `map` after entry `from`
CleanupFrom(a, map, from) ==
  LET old == OldIdleAfter(map, from)
  IN /\ instances' = map
     /\ IF old # {}
        THEN /\ target' = [target EXCEPT ![a] = MinOf(old)]
             /\ cursor' = [cursor EXCEPT ![a] = MinOf(old)]
             /\ apc' = [apc EXCEPT ![a] = "closing"]
        ELSE /\ target' = [target EXCEPT ![a] = 0]
             /\ cursor' = [cursor EXCEPT ![a] = 0]
             /\ apc' = [apc EXCEPT ![a] = "cleaned"]

InitPool ==
  /\ NoteIdle
  /\ UrlIdle
  /\ maxInstances \in 1..MaxPoolSize
  /\ instances = <<>>
  /\ launched = 0
  /\ apc = [a \in Acquirers |-> "idle"]
  /\ target = [a \in Acquirers |-> 0]
  /\ cursor = [a \in Acquirers |-> 0]
  /\ dbStatus = "absent"
  /\ queueState = "none"
  /\ pc = "none"
  /\ CrawlIdle
  /\ JobIdle
  /\ SchedIdle

\* getBrowser awaits cleanupOldInstances whatever the size of the pool
GetBrowserAlwaysCleans(a) ==
  /\ apc[a] = "idle"
  /\ MayStart
  /\ CleanupFrom(a, instances, 0)
  /\ UNCHANGED <<maxInstances, launched, crawlVars, jobVars, schedVars, urlVars, noteVars>>

\* getBrowser is called: at capacity it awaits cleanupOldInstances
GetBrowser(a) ==
  /\ apc[a] = "idle"
  /\ MayStart
  /\ IF Size >= maxInstances
     THEN CleanupFrom(a, instances, 0)
     ELSE ScanFrom(a, instances) /\ UNCHANGED cursor
  /\ UNCHANGED <<maxInstances, launched, crawlVars, jobVars, schedVars, urlVars, noteVars>>

\* closeBrowser: browser.close() returned, the instance is deleted and the
\* loop of cleanupOldInstances goes on
CloseDone(a) ==
  /\ apc[a] = "closing"
  /\ CleanupFrom(a, Without(instances, target[a]), cursor[a])
  /\ UNCHANGED <<maxInstances, launched, crawlVars, jobVars, schedVars, urlVars, noteVars>>

\* closeBrowser: browser.close() threw, the error is logged, the instance
\* stays and the loop goes on
CloseFails(a) ==
  /\ apc[a] = "closing"
  /\ CleanupFrom(a, instances, cursor[a])
  /\ UNCHANGED <<maxInstances, launched, crawlVars, jobVars, schedVars, urlVars, noteVars>>

\* getBrowser resumes after `await this.cleanupOldInstances()`
AfterCleanup(a) ==
  /\ apc[a] = "cleaned"
  /\ ScanFrom(a, instances)
  /\ UNCHANGED <<maxInstances, launched, cursor, crawlVars, jobVars, schedVars, urlVars, noteVars>>

\* createBrowser: launch and newContext returned, the instance is registered
\* with inUse: false
CreateBrowserDone(a) ==
  /\ apc[a] = "launching"
  /\ launched' = launched + 1
  /\ instances' = With(instances, launched + 1, [inUse |-> FALSE, old |-> FALSE])
  /\ target' = [target EXCEPT ![a] = launched + 1]
  /\ apc' = [apc EXCEPT ![a] = "created"]
  /\ UNCHANGED <<maxInstances, cursor, crawlVars, jobVars, schedVars, urlVars, noteVars>>

\* createBrowser: chromium.launch or newContext threw, getBrowser throws
CreateBrowserFails(a) ==
  /\ apc[a] = "launching"
  /\ apc' = [apc EXCEPT ![a] = "idle"]
  /\ UNCHANGED <<maxInstances, instances, launched, target, cursor, crawlVars, jobVars, schedVars, urlVars, noteVars>>

\* getBrowser resumes after `await this.createBrowser()`: inUse = true
\* (a TypeError if the instance is gone)
MarkInUse(a) ==
  /\ apc[a] = "created"
  /\ IF target[a] \in BrowserIds
     THEN /\ instances' = [instances EXCEPT ![target[a]].inUse = TRUE]
          /\ apc' = [apc EXCEPT ![a] = "holding"]
          /\ UNCHANGED target
     ELSE /\ apc' = [apc EXCEPT ![a] = "idle"]
          /\ target' = [target EXCEPT ![a] = 0]
          /\ UNCHANGED instances
  /\ UNCHANGED <<maxInstances, launched, cursor, crawlVars, jobVars, schedVars, urlVars, noteVars>>

\* getBrowser threw 'No available browser instances and maximum limit
\* reached': the caller's page fails
Exhausted(a) ==
  /\ apc[a] = "exhausted"
  /\ apc' = [apc EXCEPT ![a] = "idle"]
  /\ UNCHANGED <<maxInstances, instances, launched, target, cursor, crawlVars, jobVars, schedVars, urlVars, noteVars>>

\* the attempt ends and releaseBrowser is not called
ReleaseForgotten(a) ==
  /\ apc[a] = "holding"
  /\ apc' = [apc EXCEPT ![a] = "idle"]
  /\ target' = [target EXCEPT ![a] = 0]
  /\ UNCHANGED <<maxInstances, instances, launched, cursor, crawlVars, jobVars,
                 schedVars, urlVars, noteVars>>

\* releaseBrowser, from scrapePage's finally or createPage's catch
ReleaseBrowser(a) ==
  /\ apc[a] = "holding"
  /\ instances' = IF target[a] \in BrowserIds
                  THEN [instances EXCEPT ![target[a]] =
                          [inUse |-> FALSE, old |-> FALSE]]
                  ELSE instances
  /\ apc' = [apc EXCEPT ![a] = "idle"]
  /\ target' = [target EXCEPT ![a] = 0]
  /\ UNCHANGED <<maxInstances, launched, cursor, crawlVars, jobVars, schedVars, urlVars, noteVars>>

\* time passes: an idle instance was last used more than maxAge (30 minutes)
\* ago.  A getBrowser that resumes after cleanupOldInstances or createBrowser
\* returned does so at once, so no instance grows old meanwhile
Age(id) ==
  /\ id \in BrowserIds
  /\ ~instances[id].inUse
  /\ ~instances[id].old
  /\ \A a \in Acquirers : apc[a] \notin {"cleaned", "created"}
  /\ instances' = [instances EXCEPT ![id].old = TRUE]
  /\ UNCHANGED <<maxInstances, launched, apc, target, cursor, crawlVars, jobVars, schedVars, urlVars, noteVars>>

NextPool ==
  \/ \E a \in Acquirers :
       \/ GetBrowser(a)
       \/ CloseDone(a)
       \/ CloseFails(a)
       \/ AfterCleanup(a)
       \/ CreateBrowserDone(a)
       \/ CreateBrowserFails(a)
       \/ MarkInUse(a)
       \/ Exhausted(a)
       \/ ReleaseBrowser(a)
  \/ \E id \in 1..MaxLaunches : Age(id)

SpecPool == InitPool /\ [][NextPool]_vars

(***************************************************************************)
(* Properties of the pool.                                                 *)
(***************************************************************************)
Holders(id) == {a \in Acquirers : apc[a] = "holding" /\ target[a] = id}

\* C7: the pool never holds more than maxInstances instances, and no more
\* than maxInstances are in use.
C7_PoolWithinMaxInstances ==
  /\ Size <= maxInstances
  /\ Cardinality(InUseIds) <= maxInstances

\* C8: an instance returned by an acquire is returned by no other acquire
\* before it is released.
C8_NoInstanceSharedByAcquirers ==
  \A id \in 1..MaxLaunches : Cardinality(Holders(id)) <= 1

\* C9: with maxInstances = 1, of two concurrent acquires only one succeeds.
C9_SecondAcquireFails ==
  maxInstances = 1
    => Cardinality({a \in Acquirers : apc[a] = "holding"}) <= 1

\* C23: an instance is marked in use only while a page attempt holds it, so
\* when no page attempt is in flight no instance is marked in use.
C23_InUseOnlyWhileHeld ==
  /\ \A id \in InUseIds : Holders(id) # {}
  /\ (\A a \in Acquirers : apc[a] = "idle") => InUseIds = {}

\* the attempts ended: an old instance was closed and replaced, and the
\* instances that were acquired are registered and not in use
C23_AllReleased ==
  /\ \A a \in Acquirers : apc[a] = "idle"
  /\ Size = MaxPoolSize
  /\ launched > Size

\* C31 as stated: no instance is closed while the pool is below capacity,
\* however old it is, and below capacity an acquire reuses an idle instance
\* whenever one exists.
C31_NoCloseBelowCapacity ==
  /\ [][(DOMAIN instances' # DOMAIN instances /\ DOMAIN instances' \subseteq DOMAIN instances)
          => (Size >= maxInstances)]_vars
  /\ [][\A a \in Acquirers :
          (apc[a] = "idle" /\ apc'[a] # "idle" /\ Size < maxInstances
             /\ InUseIds # BrowserIds)
          => (apc'[a] = "holding" /\ target'[a] \in BrowserIds \ InUseIds)]_vars

\* C31, corrected: a pass of cleanupOldInstances starts only in an acquire
\* that finds the pool at capacity, and only such a pass closes instances,
\* each of them idle and old when the pass came to it; the pass goes on to
\* every old idle instance, also after its first close has brought the pool
\* below capacity.  An acquire that finds the pool below capacity closes
\* nothing and reuses an idle instance if there is one.
C31_RecyclingStartsAtCapacity ==
  /\ [][\A a \in Acquirers :
          (apc[a] = "idle" /\ apc'[a] # "idle")
          => IF Size >= maxInstances
             THEN apc'[a] \in {"closing", "cleaned"}
             ELSE /\ instances' # instances => apc'[a] = "holding"
                  /\ DOMAIN instances' = DOMAIN instances
                  /\ InUseIds # BrowserIds
                       => (apc'[a] = "holding"
                           /\ target'[a] \in BrowserIds \ InUseIds)]_vars
  /\ [][\A a \in Acquirers :
          (apc'[a] = "closing" /\ (apc[a] # "closing" \/ target'[a] # target[a]))
          => /\ apc[a] \in {"idle", "closing"}
             /\ target'[a] \in DOMAIN instances'
             /\ ~instances'[target'[a]].inUse
             /\ instances'[target'[a]].old]_vars
  /\ [][\A id \in BrowserIds \ DOMAIN instances' :
          \E a \in Acquirers : apc[a] = "closing" /\ target[a] = id]_vars

\* a pass that has closed an instance, so that the pool is below capacity, is
\* closing the next old idle instance
C31_PassGoesOnBelowCapacity ==
  \E a \in Acquirers :
    /\ apc[a] = "closing"
    /\ Size < maxInstances
    /\ launched > Size

\* C32: the recycling run by an acquire never removes from the pool an
\* instance that another acquirer holds, whatever runs at the awaits of
\* cleanupOldInstances and closeBrowser.
C32_HeldInstanceNeverRecycled ==
  [][\A id \in BrowserIds \ DOMAIN instances' : Holders(id) = {}]_vars

(***************************************************************************)
(* One job of any kind: submission (POST /crawl, JobManager.addJob) and    *)
(* the processor of its queue's worker; the handler is one step.           *)
(***************************************************************************)
JobKinds == {"scrape", "crawl", "search"}

\* defaultJobOptions.attempts of `<kind>-queue`
AttemptLimit(k) ==
  IF k = "scrape" THEN ScrapeMaxRetries
  ELSE IF k = "crawl" THEN CrawlMaxRetries
  ELSE SearchMaxRetries

\* result.success of the handlers: processScrapeJob returns success: false
\* when scrapePage threw, processCrawlJob returns what C11 shows, and
\* processSearchJob always succeeds
HandlerResults(k) == IF k = "scrape" THEN BOOLEAN ELSE {TRUE}

\* processScrapeJob and processCrawlJob import their service before the try
ImportingKinds == {"scrape", "crawl"}

crawlRest == <<progressInFlight, maxPages, maxDepth, tracking, crawled,
               toCrawl, results, failedUrls, cur, pending, tracker,
               trackerActive, listeners, cancelWrite, cancelRequested,
               revisitFailed>>

InitJob ==
  /\ NoteIdle
  /\ UrlIdle
  /\ dbStatus = "absent"
  /\ queueState = "none"
  /\ pc = "none"
  /\ kind \in JobKinds
  /\ via \in {"addJob", "postCrawl"}
  /\ via = "postCrawl" => kind = "crawl"
  /\ submit = IF via = "postCrawl" THEN "route" ELSE "addJob"
  /\ response = "none"
  /\ attemptsMade = 0
  /\ options = NoOptions
  /\ SchedIdle
  /\ CrawlIdle
  /\ PoolIdle

\* POST /crawl: INSERT INTO jobs (id, ..., 'pending'), then addJob({id, ...})
PostCrawlInsert ==
  /\ submit = "route"
  /\ dbStatus' = "pending"
  /\ submit' = "addJob"
  /\ UNCHANGED <<queueState, pc, crawlRest, poolVars, kind, via, response,
                 attemptsMade, options, schedVars, urlVars, noteVars>>

\* addJob: INSERT INTO jobs (id, ..., 'pending'); jobs.id is the primary key,
\* so the INSERT of an id that has a record throws, and the route answers 500
AddJobInsert ==
  /\ submit = "addJob"
  /\ IF dbStatus = "absent"
     THEN /\ dbStatus' = "pending"
          /\ submit' = "inserted"
          /\ UNCHANGED response
     ELSE /\ submit' = "done"
          /\ response' = "error"
          /\ UNCHANGED dbStatus
  /\ UNCHANGED <<queueState, pc, crawlRest, poolVars, kind, via, attemptsMade,
                 options, schedVars, urlVars, noteVars>>

\* addJob: queue.add(...), return jobId
AddJobEnqueue ==
  /\ submit = "inserted"
  /\ queueState' = "waiting"
  /\ pc' = "queued"
  /\ submit' = "done"
  /\ response' = "jobId"
  /\ UNCHANGED <<dbStatus, crawlRest, poolVars, kind, via, attemptsMade,
                 options, schedVars, urlVars, noteVars>>

\* addJob: queue.add(...) threw (the queue's store cannot be reached): the
\* catch logs and rethrows, the record stays as inserted
AddJobEnqueueFails ==
  /\ submit = "inserted"
  /\ submit' = "done"
  /\ response' = "error"
  /\ UNCHANGED <<dbStatus, queueState, pc, crawlRest, poolVars, kind, via,
                 attemptsMade, options, schedVars, urlVars, noteVars>>

\* the worker takes the entry and calls the processor
ProcessorStart ==
  /\ submit = "done"
  /\ queueState = "waiting"
  /\ queueState' = "active"
  /\ pc' = "dequeued"
  /\ UNCHANGED <<dbStatus, crawlRest, poolVars, jobVars, schedVars, urlVars, noteVars>>

\* the status the processor writes before the switch over job.data.type
StatusAtStartKept(current) == current

StatusAtStart(current) == "processing"

\* getJobProcessor: await updateJobStatus(id, 'processing', 0), then the handler
ProcessorMarkProcessing ==
  /\ pc = "dequeued"
  /\ dbStatus' = UpdatedStatus(StatusAtStart(dbStatus))
  /\ pc' = "handler"
  /\ UNCHANGED <<queueState, crawlRest, poolVars, jobVars, schedVars, urlVars, noteVars>>

\* the handler returned its result: the processor writes the result's status
\* and returns, so the queue sees the job complete
ProcessorFinish ==
  /\ pc = "handler"
  /\ \E success \in HandlerResults(kind) :
       dbStatus' = UpdatedStatus(ResultStatus([success |-> success]))
  /\ queueState' = "completed"
  /\ pc' = "done"
  /\ UNCHANGED <<crawlRest, poolVars, jobVars, schedVars, urlVars, noteVars>>

\* the handler's import rejected: the processor's catch writes `failed` and
\* rethrows; the queue redelivers the job until its attempts are used up
ProcessorCatch ==
  /\ pc = "handler"
  /\ kind \in ImportingKinds
  /\ dbStatus' = UpdatedStatus("failed")
  /\ attemptsMade' = attemptsMade + 1
  /\ IF attemptsMade + 1 < AttemptLimit(kind)
     THEN queueState' = "waiting" /\ pc' = "queued"
     ELSE queueState' = "failed" /\ pc' = "done"
  /\ UNCHANGED <<crawlRest, poolVars, kind, via, submit, response, options,
                 schedVars, urlVars, noteVars>>

\* processCrawlJob's progress callback: job.updateProgress(...) makes the
\* worker emit 'progress'
HandlerProgress ==
  /\ pc = "handler"
  /\ kind = "crawl"
  /\ ~progressInFlight
  /\ progressInFlight' = TRUE
  /\ UNCHANGED <<dbStatus, queueState, pc, maxPages, maxDepth, tracking,
                 crawled, toCrawl, results, failedUrls, cur, pending, tracker,
                 trackerActive, listeners, cancelWrite, cancelRequested,
                 revisitFailed, poolVars, jobVars, schedVars, urlVars, noteVars>>

NextJob ==
  \/ PostCrawlInsert
  \/ AddJobInsert
  \/ AddJobEnqueue
  \/ AddJobEnqueueFails
  \/ ProcessorStart
  \/ ProcessorMarkProcessing
  \/ ProcessorFinish
  \/ ProcessorCatch
  \/ HandlerProgress
  \/ HandleJobProgress
  \/ DeleteCrawl
  \/ CancelJob

SpecJob == InitJob /\ [][NextJob]_vars

(***************************************************************************)
(* Properties of the job lifecycle.                                        *)
(***************************************************************************)
\* C12: a job is persisted as failed only when the attempts of its queue
\* are used up.
C12_FailedOnlyAfterAttemptsExhausted ==
  dbStatus = "failed" => attemptsMade = AttemptLimit(kind)

\* C13: a submission that has returned and left its record pending has left
\* the job's entry in the queue and has returned the job id.
C13_SubmissionLeavesRecordAndEntry ==
  (submit = "done" /\ dbStatus = "pending")
    => (response = "jobId" /\ queueState \in {"waiting", "active"})

\* C35: once the submission has ended, a record that is pending has its job
\* in the queue, also when addJob failed after it inserted the record.
C35_PendingRecordHasQueueEntry ==
  (submit = "done" /\ response = "error")
    => (dbStatus = "pending" => queueState \in {"waiting", "active"})

\* C14: a job cancelled while it was pending is never dequeued and never
\* becomes processing.
C14_CancelledPendingNeverDequeued ==
  [][(cancelRequested = "whilePending")
       => (queueState' # "active" /\ dbStatus' # "processing")]_vars

InitSched ==
  /\ NoteIdle
  /\ UrlIdle
  /\ waiting = 0
  /\ workerCrawls = 0
  /\ mcpCrawls = {}
  /\ activeCrawls = {}
  /\ dbStatus = "absent"
  /\ queueState = "none"
  /\ pc = "none"
  /\ CrawlIdle
  /\ JobIdle
  /\ PoolIdle

\* addJob for a crawl job: queue.add
EnqueueCrawl ==
  /\ waiting < MaxWaiting
  /\ waiting' = waiting + 1
  /\ UNCHANGED <<workerCrawls, mcpCrawls, activeCrawls, crawlVars, poolVars, jobVars, urlVars, noteVars>>

\* the worker of crawl-queue (concurrency: 3) starts the processor of a job
WorkerTakesCrawl ==
  /\ waiting > 0
  /\ workerCrawls < CrawlConcurrency
  /\ waiting' = waiting - 1
  /\ workerCrawls' = workerCrawls + 1
  /\ UNCHANGED <<mcpCrawls, activeCrawls, crawlVars, poolVars, jobVars, urlVars, noteVars>>

\* the processor of a crawl job returned
WorkerCrawlEnds ==
  /\ workerCrawls > 0
  /\ workerCrawls' = workerCrawls - 1
  /\ UNCHANGED <<waiting, mcpCrawls, activeCrawls, crawlVars, poolVars, jobVars, urlVars, noteVars>>

\* start_crawl: startCrawl makes a job id (one no map holds) and puts it in
\* activeCrawls; createMCPCrawlJob calls crawlMultiPage without awaiting it
CreateMCPCrawlJob ==
  /\ \E jobId \in (1..MaxMcpCrawls) \ (mcpCrawls \cup activeCrawls) :
       /\ activeCrawls' = activeCrawls \cup {jobId}
       /\ mcpCrawls' = mcpCrawls \cup {jobId}
  /\ UNCHANGED <<waiting, workerCrawls, crawlVars, poolVars, jobVars, urlVars, noteVars>>

\* a crawl started by createMCPCrawlJob returned or threw: the finally of
\* crawlMultiPage deletes its tracker, and nothing tells MCPIntegration
McpCrawlEnds ==
  /\ \E jobId \in mcpCrawls : mcpCrawls' = mcpCrawls \ {jobId}
  /\ UNCHANGED <<waiting, workerCrawls, activeCrawls, crawlVars, poolVars, jobVars,
                 urlVars, noteVars>>

\* MCPIntegration.getProgress(jobId), which list_active_crawls and
\* get_crawl_progress call: the entry of a crawl that has no tracker is deleted
GetProgress ==
  /\ \E jobId \in activeCrawls \ mcpCrawls :
       activeCrawls' = activeCrawls \ {jobId}
  /\ UNCHANGED <<waiting, workerCrawls, mcpCrawls, crawlVars, poolVars, jobVars,
                 urlVars, noteVars>>

\* MCPIntegration.cancelCrawl(jobId) of a crawl that has a tracker: the entry
\* is deleted; the loop of the crawl goes on
CancelCrawl ==
  /\ \E jobId \in activeCrawls \cap mcpCrawls :
       activeCrawls' = activeCrawls \ {jobId}
  /\ UNCHANGED <<waiting, workerCrawls, mcpCrawls, crawlVars, poolVars, jobVars,
                 urlVars, noteVars>>

\* MCPIntegration.getActiveCrawls: the keys of activeCrawls
getActiveCrawls == activeCrawls

NextSched ==
  \/ EnqueueCrawl
  \/ WorkerTakesCrawl
  \/ WorkerCrawlEnds
  \/ CreateMCPCrawlJob
  \/ McpCrawlEnds
  \/ GetProgress
  \/ CancelCrawl

SpecSched == InitSched /\ [][NextSched]_vars

\* C16: the crawls whose loop runs, started by the worker or by start_crawl,
\* are never more than the concurrency of crawl-queue.
C16_RunningCrawlsWithinConcurrency ==
  workerCrawls + Cardinality(mcpCrawls) <= CrawlConcurrency

\* C28: getActiveCrawls, and so list_active_crawls, returns only the job ids
\* of crawls that have started and have not completed, failed or been
\* cancelled.
C28_ListedCrawlsAreRunning == getActiveCrawls \subseteq mcpCrawls

(***************************************************************************)
(* LinkExtractor.normalizeUrl on its own: a link is normalized, and the    *)
(* result is normalized again.                                             *)
(***************************************************************************)
\* a segment that is empty, or one that is a name
Segments == 0..1
Paths == UNION {[1..n -> Segments] : n \in 1..MaxSegments}
Params == [name : 1..NumParamNames, value : 1..NumParamValues]
Queries == UNION {[1..n -> Params] : n \in 0..MaxParams}
Fragments == {"", "top"}
\* the strings deduplicateLinks may be given
RawUrls ==
  {NoUrl} \cup {Url(p, q, h) : p \in Paths, q \in Queries, h \in Fragments}

InitUrl ==
  /\ NoteIdle
  /\ href \in RawUrls
  /\ stage = "raw"
  /\ dbStatus = "absent"
  /\ queueState = "none"
  /\ pc = "none"
  /\ CrawlIdle
  /\ JobIdle
  /\ SchedIdle
  /\ PoolIdle

\* links.map(link => this.normalizeUrl(link)), for one link
NormalizeLink ==
  /\ stage = "raw"
  /\ href' = normalizeUrl(href)
  /\ stage' = "normalized"
  /\ UNCHANGED <<crawlVars, poolVars, jobVars, schedVars, noteVars>>

\* the normalized link is found on a later page and normalized again
NormalizeAgain ==
  /\ stage = "normalized"
  /\ href' = normalizeUrl(href)
  /\ stage' = "again"
  /\ UNCHANGED <<crawlVars, poolVars, jobVars, schedVars, noteVars>>

NextUrl ==
  \/ NormalizeLink
  \/ NormalizeAgain

SpecUrl == InitUrl /\ [][NextUrl]_vars

\* C19: normalizeUrl is idempotent: normalizing a link that normalizeUrl
\* returned gives the same link.
C19_NormalizeUrlIdempotent ==
  [][(stage = "normalized") => (href' = href)]_vars

(***************************************************************************)
(* A ProgressTracker on its own: its methods are called in any order,      *)
(* `now` minutes after its construction, with listeners registered by      *)
(* onUpdate.                                                               *)
(***************************************************************************)
InitTracker ==
  /\ NoteIdle
  /\ dbStatus = "absent"
  /\ queueState = "none"
  /\ progressInFlight = FALSE
  /\ pc = "none"
  /\ maxPages \in {MaxTracked, DefaultMaxPages}
  /\ maxDepth = DefaultMaxDepth
  /\ tracking = TRUE
  /\ crawled = {}
  /\ toCrawl = <<>>
  /\ results = <<>>
  /\ failedUrls = <<>>
  /\ cur = NoEntry
  /\ pending = NoResult
  /\ tracker = initializeProgress(maxPages, maxDepth)
  /\ trackerActive = TRUE
  /\ listeners \in 0..MaxListeners
  /\ cancelWrite = FALSE
  /\ cancelRequested = "no"
  /\ revisitFailed = FALSE
  /\ PoolIdle
  /\ JobIdle
  /\ SchedIdle
  /\ UrlIdle

\* one method of the tracker is called; those that call emitUpdate make one
\* call of every registered listener, after the snapshot is updated
TrackerCall ==
  /\ \E now \in tracker.elapsedMinutes..MaxElapsed :
       LET t == [tracker EXCEPT !.elapsedMinutes = now]
       IN \/ /\ t.currentPageNumber < MaxTracked
             /\ lastEvent' = "startProcessingPage"
             /\ tracker' = startProcessingPage(t, PageUrl(1), 0)
             /\ notified' = listeners
          \/ /\ t.pagesProcessed < Min(MaxTracked, t.maxPages)
             /\ \E linksFound \in 0..1 :
                  /\ t.totalPagesDiscovered + linksFound <= MaxTracked
                  /\ tracker' = pageCompleted(t, linksFound)
             /\ lastEvent' = "pageCompleted"
             /\ notified' = listeners
          \/ /\ t.pagesProcessed < Min(MaxTracked, t.maxPages)
             /\ lastEvent' = "pageFailed"
             /\ tracker' = pageFailed(t, PageUrl(1), "page.goto: Timeout exceeded")
             /\ notified' = listeners
          \/ /\ t.totalPagesDiscovered < MaxTracked
             /\ lastEvent' = "urlsDiscovered"
             /\ tracker' = urlsDiscovered(t, 1)
             /\ notified' = listeners
          \/ /\ lastEvent' = "updateQueueStatus"
             /\ \E n \in 0..1 : tracker' = updateQueueStatus(t, n)
             /\ notified' = 0
          \/ /\ lastEvent' = "markCompleted"
             /\ tracker' = markCompleted(t)
             /\ notified' = listeners
          \/ /\ lastEvent' = "markFailed"
             /\ tracker' = markFailed(t)
             /\ notified' = listeners
  /\ UNCHANGED <<dbStatus, queueState, progressInFlight, pc, maxPages, maxDepth,
                 tracking, crawled, toCrawl, results, failedUrls, cur, pending,
                 trackerActive, listeners, cancelWrite, cancelRequested,
                 revisitFailed, poolVars, jobVars, schedVars, urlVars>>

SpecTracker == InitTracker /\ [][TrackerCall]_vars

\* C25: every method of the tracker that is an event makes one call of
\* every registered listener.
C25_EveryEventNotifiesListeners ==
  lastEvent # "none" => notified = listeners

\* C26: while pagesProcessed is below 3, the tracker of a crawl reports no
\* estimated time remaining.
C26_NoEstimateBelowThreshold ==
  tracker.pagesProcessed < 3 => tracker.estimatedTimeRemaining = <<>>

\* three pages are processed, a rate is known and an estimate is reported
C26_EstimateAtThreshold ==
  /\ tracker.pagesProcessed = 3
  /\ tracker.pagesPerMinute > 0
  /\ tracker.estimatedTimeRemaining # <<>>

\* C39: whatever methods of the tracker were called, and in whatever order,
\* pagesProcessed is pagesSuccessful + pagesFailed and the error list has
\* pagesFailed entries.
C39_TrackerCountersAddUp ==
  /\ tracker.pagesProcessed = tracker.pagesSuccessful + tracker.pagesFailed
  /\ Len(tracker.errors) = tracker.pagesFailed

\* pages of both kinds were reported, and then the end of the crawl
C39_BothKindsThenEnd ==
  /\ tracker.pagesSuccessful >= 1
  /\ tracker.pagesFailed >= 2
  /\ lastEvent = "markFailed"

(***************************************************************************)
(* The defaults of a crawl request.                                        *)
(***************************************************************************)
\* C27: a crawl submitted without maxDepth and maxPages runs with the defaults
\* of the request schema, maxDepth 3 and maxPages 100.
C27_RunsWithSchemaDefaults ==
  (options.maxDepth = 0 /\ options.maxPages = 0)
    => /\ maxDepth = SchemaDefaultMaxDepth
       /\ maxPages = SchemaDefaultMaxPages
       /\ tracker.maxPages = SchemaDefaultMaxPages

====
